---------------------------- MODULE Spec2Model ----------------------------
(* A model of the AQI dashboard (src/app.py): the remote "sensordata"      *)
(* table, get_latest_data, the live fragment show_live_monitor that is     *)
(* re-run on a timer, the one-shot show_history view and the ROUTER.       *)
(*                                                                         *)
(* Time is counted in minutes.  A stored created_at value is the pair      *)
(* <<wall, off>> read from its ISO text (wall-clock minutes and UTC        *)
(* offset), or <<>> when the text does not parse.  A DataFrame cell is     *)
(* <<v>>, or <<>> for NaN (the key is missing from that row's dict).       *)
EXTENDS Integers, Sequences, FiniteSets, TLC

\* ------------------------------------------------------------------ bounds
MaxRows == 3        \* rows the sensor appends to the table
AqiNeg == 3         \* classify is tried on -AqiNeg ..
AqiTop == 303       \* .. AqiTop
MaxId == 5          \* ids of the table get_latest_data is tried on
MaxLimit == 3       \* limits get_latest_data is tried with

\* ------------------------------------------------------- program constants
LiveLimit == 50         \* get_latest_data(50)
HistoryLimit == 1000    \* get_latest_data(1000)
KolkataOffset == 330    \* 'Asia/Kolkata' is UTC+05:30
MinutesPerDay == 1440

VARIABLES
    table,          \* the remote table: a set of rows with unique ids
    choice,         \* the sidebar radio's selection
    timerOn,        \* the live fragment is registered with run_every
    state,          \* "Idle" or "Refreshing": a live cycle is in flight
    rows,           \* what the latest call of get_latest_data returned to its view
    rerunRequested, \* a sidebar input arrived while the cycle was in flight
    outcome,        \* what became of the latest live cycle, and whether it drew over a live frame
    view,           \* the frame the page shows
    inp,            \* input of the pure function under test
    out             \* its result

vars == <<table, choice, timerOn, state, rows, rerunRequested, outcome, view, inp, out>>

\* ------------------------------------------------------------ the store
Min(a, b) == IF a <= b THEN a ELSE b

Take(s, n) == SubSeq(s, 1, Min(n, Len(s)))

MaxIdRow(S) == CHOOSE r \in S : \A q \in S : q.id <= r.id

RECURSIVE OrderByIdDesc(_)
OrderByIdDesc(S) ==
    IF S = {} THEN <<>>
    ELSE <<MaxIdRow(S)>> \o OrderByIdDesc(S \ {MaxIdRow(S)})

\* variant: the query without its .limit(limit)
get_latest_data_unlimited(tbl, limit, ok) ==
    IF ok THEN OrderByIdDesc(tbl) ELSE <<>>

\* get_latest_data: the query orders by id descending and truncates to
\* limit; any exception of the round trip (ok = FALSE) gives [].
get_latest_data(tbl, limit, ok) ==
    IF ok THEN Take(OrderByIdDesc(tbl), limit) ELSE <<>>

\* ------------------------------------------------------- the DataFrame
Cell(r, key) == IF key \in r.absent THEN <<>> ELSE <<r[key]>>

\* variant: tz_localize in place of tz_convert, the wall clock relabelled
tz_convert_localize(ts) == <<ts[1], KolkataOffset>>

\* pd.to_datetime(...).dt.tz_convert('Asia/Kolkata'): the same instant,
\* shown on the Kolkata wall clock.
tz_convert(ts) == <<(ts[1] - ts[2]) + KolkataOffset, KolkataOffset>>

Instant(ts) == ts[1] - ts[2]

\* pd.DataFrame(rows) with the renamed columns and the converted Timestamp
DataFrame(rs) ==
    [i \in 1..Len(rs) |->
        [id          |-> rs[i].id,
         Timestamp   |-> tz_convert(rs[i].created_at),
         MQ135       |-> Cell(rs[i], "mq135"),
         Temperature |-> Cell(rs[i], "temperature"),
         Humidity    |-> Cell(rs[i], "humidity"),
         AQI         |-> Cell(rs[i], "aqi")]]

\* a column exists when at least one row's dict has the key
HasColumn(rs, key) == \E i \in 1..Len(rs) : key \notin rs[i].absent

\* pd.to_datetime raises on a text it cannot parse
TimestampsParse(rs) == \A i \in 1..Len(rs) : Len(rs[i].created_at) = 2

\* variant: the frame charted as fetched, newest first
sort_values_unsorted(df) == {df}

\* df.sort_values('Timestamp'): the default quicksort is not stable, so
\* every ascending arrangement of the rows is a possible result.
sort_values(df) ==
    { [i \in 1..Len(df) |-> df[p[i]]] : p \in
        { q \in Permutations(1..Len(df)) :
            \A i, j \in 1..Len(df) :
                i < j => Instant(df[q[i]].Timestamp) <= Instant(df[q[j]].Timestamp) } }

\* variant: a chart that appends the new points to those already drawn
Series_appending(df, metric) ==
    view.chart[metric] \o [i \in 1..Len(df) |-> <<df[i].Timestamp, df[i][metric]>>]

\* px.line(df_sorted, x="Timestamp", y=metric): one point per row, in order
Series(df, metric) == [i \in 1..Len(df) |-> <<df[i].Timestamp, df[i][metric]>>]

\* strftime("%H:%M:%S"): the time of day, the date dropped
strftime(ts) == <<(ts[1] % MinutesPerDay) \div 60, ts[1] % 60>>

\* variant: strict comparisons, the thresholds exclusive
classify_strict(aqi) ==
    IF aqi < 50 THEN [status |-> "Good", color |-> "#00e400"]
    ELSE IF aqi < 100 THEN [status |-> "Moderate", color |-> "#ffff00"]
    ELSE IF aqi < 150 THEN [status |-> "Unhealthy (Sens.)", color |-> "#ff7e00"]
    ELSE IF aqi < 200 THEN [status |-> "Unhealthy", color |-> "#ff0000"]
    ELSE IF aqi < 300 THEN [status |-> "Very Unhealthy", color |-> "#8f3f97"]
    ELSE [status |-> "Hazardous", color |-> "#7e0023"]

\* variant: the labels of the 200 and 300 branches exchanged
classify_swapped(aqi) ==
    IF aqi <= 50 THEN [status |-> "Good", color |-> "#00e400"]
    ELSE IF aqi <= 100 THEN [status |-> "Moderate", color |-> "#ffff00"]
    ELSE IF aqi <= 150 THEN [status |-> "Unhealthy (Sens.)", color |-> "#ff7e00"]
    ELSE IF aqi <= 200 THEN [status |-> "Very Unhealthy", color |-> "#8f3f97"]
    ELSE IF aqi <= 300 THEN [status |-> "Unhealthy", color |-> "#ff0000"]
    ELSE [status |-> "Hazardous", color |-> "#7e0023"]

\* ------------------------------------------------------ Color Logic
classify(aqi) ==
    IF aqi <= 50 THEN [status |-> "Good", color |-> "#00e400"]
    ELSE IF aqi <= 100 THEN [status |-> "Moderate", color |-> "#ffff00"]
    ELSE IF aqi <= 150 THEN [status |-> "Unhealthy (Sens.)", color |-> "#ff7e00"]
    ELSE IF aqi <= 200 THEN [status |-> "Unhealthy", color |-> "#ff0000"]
    ELSE IF aqi <= 300 THEN [status |-> "Very Unhealthy", color |-> "#8f3f97"]
    ELSE [status |-> "Hazardous", color |-> "#7e0023"]


\* ------------------------------------------------------------ frames
NoChart == [AQI |-> <<>>, Temperature |-> <<>>, Humidity |-> <<>>]

\* a frame with nothing but its kind: the page shows no reading
Frame(kind) ==
    [kind |-> kind, aqi |-> <<>>, temp |-> <<>>, hum |-> <<>>, time_str |-> <<>>,
     status |-> "", color |-> "", chart |-> NoChart, log |-> <<>>]

\* variant: df.iloc[-1], the oldest row of the batch
latest_oldest(df) == df[Len(df)]

\* latest = df.iloc[0]
latest(df) == df[1]

\* the data branch of show_live_monitor.  An exception raised before the
\* first st.* call leaves the fragment showing only the exception:
\* to_datetime on an unparseable text, int() of a NaN or missing AQI,
\* a Temperature or Humidity column that no row has.
LiveFrames(rs) ==
    IF ~TimestampsParse(rs) THEN {Frame("live error")}
    ELSE IF latest(DataFrame(rs)).AQI = <<>> THEN {Frame("live error")}
    ELSE IF ~HasColumn(rs, "temperature") \/ ~HasColumn(rs, "humidity")
         THEN {Frame("live error")}
    ELSE LET df == DataFrame(rs)
             aqi == latest(df).AQI[1]
         IN { [kind     |-> "live",
               aqi      |-> <<aqi>>,
               temp     |-> latest(df).Temperature,
               hum      |-> latest(df).Humidity,
               time_str |-> strftime(latest(df).Timestamp),
               status   |-> classify(aqi).status,
               color    |-> classify(aqi).color,
               chart    |-> [NoChart EXCEPT !.AQI = Series(df_sorted, "AQI")],
               log      |-> <<>>] : df_sorted \in sort_values(df) }

\* variant: no else branch, an empty batch leaves the page as it was
show_live_monitor_stale(rs) ==
    IF rs = <<>> THEN {view} ELSE LiveFrames(rs)

\* show_live_monitor, given what get_latest_data(50) returned: the frames
\* one run of the fragment can leave on the page.
show_live_monitor(rs) ==
    IF rs = <<>> THEN {Frame("info")} ELSE LiveFrames(rs)

\* show_history, given what get_latest_data(1000) returned.  px.line
\* raises when one of its y columns is in no row.
show_history(rs) ==
    IF rs = <<>> THEN {Frame("no data")}
    ELSE IF ~TimestampsParse(rs) THEN {Frame("history error")}
    ELSE IF \E key \in {"aqi", "temperature", "humidity"} : ~HasColumn(rs, key)
         THEN {Frame("history error")}
    ELSE LET df == DataFrame(rs)
         IN { [Frame("history") EXCEPT
                 !.chart = [AQI         |-> Series(df_sorted, "AQI"),
                            Temperature |-> Series(df_sorted, "Temperature"),
                            Humidity    |-> Series(df_sorted, "Humidity")],
                 !.log = df] : df_sorted \in sort_values(df) }

\* show_future
show_future == Frame("future")

\* ------------------------------------------------------------ the sensor
Views == {"Current Data", "Stored Data", "Future Data"}

\* what the upstream sensor may write: sound rows, a row without its
\* temperature, a row without its aqi, a row whose created_at does not parse
\* (absent names the keys the row's dict lacks; Cell never reads them)
SensorRows ==
    { [id |-> 0, created_at |-> <<t, 0>>, mq135 |-> 100, temperature |-> 25,
       humidity |-> 60, aqi |-> a, absent |-> {}] : t \in {1, 2}, a \in {40, 301} }
    \cup
    { [id |-> 0, created_at |-> <<1, 0>>, mq135 |-> 100, temperature |-> 25,
       humidity |-> 60, aqi |-> 40, absent |-> ab] : ab \in {{"temperature"}, {"aqi"}} }
    \cup
    { [id |-> 0, created_at |-> <<>>, mq135 |-> 100, temperature |-> 25,
       humidity |-> 60, aqi |-> 40, absent |-> {}] }

\* the store assigns the next id
SensorAppend ==
    /\ Cardinality(table) < MaxRows
    /\ \E r \in SensorRows :
           table' = table \cup {[r EXCEPT !.id = Cardinality(table) + 1]}
    /\ UNCHANGED <<choice, timerOn, state, rows, rerunRequested, outcome, view, inp, out>>

\* ------------------------------------------------------------ the ROUTER
\* variant: the live view called whatever the selection
Route_always_live(c) == "show_live_monitor"

\* the view function the ROUTER calls for a selection
Route(c) ==
    IF c = "Current Data" THEN "show_live_monitor"
    ELSE IF c = "Stored Data" THEN "show_history"
    ELSE "show_future"

\* One run of the script from the top.  Calling the fragment registers its
\* timer and starts its first cycle, which blocks in get_latest_data; a run
\* that does not call it drops the fragment and its timer.
ScriptRun(c) ==
    IF Route(c) = "show_live_monitor"
    THEN /\ timerOn' = TRUE
         /\ state' = "Refreshing"
         /\ \E ok \in BOOLEAN : rows' = get_latest_data(table, LiveLimit, ok)
         /\ view' = view
    ELSE IF Route(c) = "show_history"
    THEN /\ timerOn' = FALSE
         /\ state' = "Idle"
         /\ \E ok \in BOOLEAN :
                /\ rows' = get_latest_data(table, HistoryLimit, ok)
                /\ view' \in show_history(rows')
    ELSE /\ timerOn' = FALSE
         /\ state' = "Idle"
         /\ rows' = rows
         /\ view' = show_future

\* The user moves the radio (or the slider: c = choice).  The script is
\* re-run at once when no cycle is in flight; otherwise the request waits
\* for the running fragment to reach its next st.* call.
SidebarInput ==
    \E c \in Views :
        /\ choice' = c
        /\ IF state = "Idle"
           THEN /\ ScriptRun(c)
                /\ UNCHANGED <<rerunRequested, outcome>>
           ELSE /\ rerunRequested' = TRUE
                /\ UNCHANGED <<timerOn, state, rows, outcome, view>>
        /\ UNCHANGED <<table, inp, out>>

\* run_every: the timer re-runs the registered fragment
TimerFire ==
    /\ timerOn
    /\ state = "Idle"
    /\ state' = "Refreshing"
    /\ \E ok \in BOOLEAN : rows' = get_latest_data(table, LiveLimit, ok)
    /\ UNCHANGED <<table, choice, timerOn, rerunRequested, outcome, view, inp, out>>

\* get_latest_data has returned and the fragment renders its frame
CycleRender ==
    /\ state = "Refreshing"
    /\ ~rerunRequested
    /\ view' \in show_live_monitor(rows)
    /\ state' = "Idle"
    /\ outcome' = [result |-> "rendered", over |-> view.kind = "live"]
    /\ UNCHANGED <<table, choice, timerOn, rows, rerunRequested, inp, out>>

\* get_latest_data has returned with a rerun pending: the fragment is
\* stopped at its first st.* call, nothing of it is drawn, and the script
\* is re-run for the current selection
CycleDiscard ==
    /\ state = "Refreshing"
    /\ rerunRequested
    /\ rerunRequested' = FALSE
    /\ outcome' = [result |-> "discarded", over |-> FALSE]
    /\ ScriptRun(choice)
    /\ UNCHANGED <<table, choice, inp, out>>

Init ==
    /\ table = {}
    /\ choice = "Current Data"
    /\ timerOn = TRUE
    /\ state = "Refreshing"
    /\ rows = <<>>
    /\ rerunRequested = FALSE
    /\ outcome = [result |-> "none", over |-> FALSE]
    /\ view = Frame("blank")
    /\ inp = <<>>
    /\ out = <<>>

Next == SensorAppend \/ SidebarInput \/ TimerFire \/ CycleRender \/ CycleDiscard

Spec == Init /\ [][Next]_vars

\* -------------------------------------------- classify on its own
AqiRange == (0 - AqiNeg)..AqiTop

Inert ==
    /\ table = {}
    /\ choice = "Current Data"
    /\ timerOn = FALSE
    /\ state = "Idle"
    /\ rows = <<>>
    /\ rerunRequested = FALSE
    /\ outcome = [result |-> "none", over |-> FALSE]
    /\ view = Frame("blank")

InitClassify ==
    /\ Inert
    /\ inp \in {p \in [a : AqiRange, b : AqiRange] : p.a <= p.b}
    /\ out = [done |-> FALSE, val |-> <<>>]

Classify ==
    /\ ~out.done
    /\ out' = [done |-> TRUE, val |-> <<classify(inp.a), classify(inp.b)>>]
    /\ UNCHANGED <<table, choice, timerOn, state, rows, rerunRequested, outcome, view, inp>>

NextClassify == Classify

SpecClassify == InitClassify /\ [][NextClassify]_vars

\* ------------------------------------- get_latest_data on its own
StoreRow(i) ==
    [id |-> i, created_at |-> <<i, 0>>, mq135 |-> 100, temperature |-> 25,
     humidity |-> 60, aqi |-> 40, absent |-> {}]

InitFetch ==
    /\ Inert
    /\ inp \in {[tbl |-> {StoreRow(i) : i \in ids}, limit |-> l, ok |-> k] :
                   ids \in SUBSET (1..MaxId), l \in 1..MaxLimit, k \in BOOLEAN}
    /\ out = [done |-> FALSE, val |-> <<>>]

Fetch ==
    /\ ~out.done
    /\ out' = [done |-> TRUE, val |-> get_latest_data(inp.tbl, inp.limit, inp.ok)]
    /\ UNCHANGED <<table, choice, timerOn, state, rows, rerunRequested, outcome, view, inp>>

NextFetch == Fetch

SpecFetch == InitFetch /\ [][NextFetch]_vars

\* ==================================================================
\* The claims
\* ==================================================================
Range(f) == {f[i] : i \in DOMAIN f}

LiveShown == timerOn /\ state = "Idle"

\* C1: when a live cycle's fetch returned an empty sequence, the frame the
\* live view shows after that cycle is the "Connecting to cloud..." notice
\* alone, with no reading and no chart of an earlier cycle.
C1_EmptyFetchShowsNoData ==
    (LiveShown /\ rows = <<>>) => view = Frame("info")

C1_Witness ==
    /\ LiveShown
    /\ rows = <<>>
    /\ outcome = [result |-> "rendered", over |-> TRUE]
    /\ view.kind = "info"

\* C2: get_latest_data always returns a sequence; on a failed round trip
\* the empty one, otherwise the min(limit, size) rows of the table with
\* the greatest ids, in strictly descending id order.
C2_FetchLatest ==
    out.done =>
        LET r == out.val
        IN /\ (~inp.ok => r = <<>>)
           /\ Len(r) <= inp.limit
           /\ \A i, j \in 1..Len(r) : i < j => r[i].id > r[j].id
           /\ \A i \in 1..Len(r) : r[i] \in inp.tbl
           /\ inp.ok => /\ Len(r) = Min(inp.limit, Cardinality(inp.tbl))
                        /\ \A q \in inp.tbl \ Range(r) :
                               \A i \in 1..Len(r) : q.id < r[i].id

C2_Witness ==
    /\ out.done
    /\ inp.ok
    /\ Cardinality(inp.tbl) > inp.limit
    /\ Len(out.val) = inp.limit
    /\ inp.limit >= 2

\* the threshold table of the six bands
Upper == <<50, 100, 150, 200, 300>>

Bands == <<"Good", "Moderate", "Unhealthy (Sens.)", "Unhealthy", "Very Unhealthy", "Hazardous">>

BandOf(a) == Bands[1 + Cardinality({i \in 1..Len(Upper) : a > Upper[i]})]

Severity(status) == CHOOSE i \in 1..Len(Bands) : Bands[i] = status

\* C3: classify gives every AQI value the band whose inclusive upper
\* threshold it first does not exceed; 50 is Good, 51 Moderate, 300 Very
\* Unhealthy, 301 Hazardous.
C3_ClassifyThresholds ==
    out.done =>
        /\ out.val[1].status = BandOf(inp.a)
        /\ out.val[2].status = BandOf(inp.b)
        /\ (inp.a = 50 => out.val[1].status = "Good")
        /\ (inp.a = 51 => out.val[1].status = "Moderate")
        /\ (inp.a = 300 => out.val[1].status = "Very Unhealthy")
        /\ (inp.a = 301 => out.val[1].status = "Hazardous")

C3_Witness ==
    /\ out.done
    /\ inp.a = 300
    /\ inp.b = 301
    /\ out.val[1].status = "Very Unhealthy"
    /\ out.val[2].status = "Hazardous"

\* C4: for a <= b, negative values included, classify returns one of the
\* six bands for each, the band of b is at least as severe as the band of
\* a, and a negative value is Good.
C4_ClassifyTotalMonotonic ==
    out.done =>
        /\ out.val[1].status \in Range(Bands)
        /\ out.val[2].status \in Range(Bands)
        /\ Severity(out.val[1].status) <= Severity(out.val[2].status)
        /\ (inp.a < 0 => out.val[1].status = "Good")

C4_Witness ==
    /\ out.done
    /\ inp.a < 0
    /\ inp.b > 300
    /\ Severity(out.val[1].status) < Severity(out.val[2].status)

NonDecreasing(series) ==
    \A i, j \in 1..Len(series) : i < j => Instant(series[i][1]) <= Instant(series[j][1])

\* C5: every chart series on the page (AQI of the live frame; AQI,
\* Temperature and Humidity of the history frame) has one point per row
\* of its batch and is non-decreasing in timestamp.
C5_SeriesOldestFirst ==
    /\ view.kind = "live" =>
           /\ Len(view.chart.AQI) > 0
           /\ NonDecreasing(view.chart.AQI)
    /\ view.kind = "history" =>
           \A m \in {"AQI", "Temperature", "Humidity"} :
               /\ Len(view.chart[m]) = Len(view.log)
               /\ NonDecreasing(view.chart[m])

C5_Witness ==
    /\ view.kind = "history"
    /\ Len(view.log) = MaxRows
    /\ Instant(view.log[1].Timestamp) > Instant(view.log[MaxRows].Timestamp)
    /\ Instant(view.chart.Humidity[1][1]) < Instant(view.chart.Humidity[MaxRows][1])

\* C6: the reading a live frame summarises and classifies is the first
\* row of the fetched batch, and that row has the greatest id of the batch.
C6_LatestIsNewest ==
    (LiveShown /\ view.kind = "live") =>
        /\ \A i \in 1..Len(rows) : rows[i].id <= rows[1].id
        /\ view.aqi = <<rows[1].aqi>>
        /\ view.temp = Cell(rows[1], "temperature")
        /\ view.hum = Cell(rows[1], "humidity")
        /\ view.time_str = strftime(<<Instant(rows[1].created_at) + KolkataOffset, KolkataOffset>>)
        /\ view.status = BandOf(rows[1].aqi)

C6_Witness ==
    /\ LiveShown
    /\ view.kind = "live"
    /\ Len(rows) = 3
    /\ <<rows[1].id, rows[2].id, rows[3].id>> = <<3, 2, 1>>
    /\ rows[1].aqi = 301
    /\ rows[3].aqi = 40
    /\ view.aqi = <<301>>

\* how often pair p occurs in a sequence of pairs
Count(seq, p) == Cardinality({i \in 1..Len(seq) : seq[i] = p})

\* the (instant, value) pairs of a chart series, and of a raw batch
SeriesPairs(series) == [i \in 1..Len(series) |-> <<Instant(series[i][1]), series[i][2]>>]

BatchPairs(rs, key) == [i \in 1..Len(rs) |-> <<Instant(rs[i].created_at), Cell(rs[i], key)>>]

SamePairs(series, rs, key) ==
    /\ Len(series) = Len(rs)
    /\ \A p \in Range(SeriesPairs(series)) \cup Range(BatchPairs(rs, key)) :
           Count(SeriesPairs(series), p) = Count(BatchPairs(rs, key), p)

\* C7: the series of a frame hold exactly the (timestamp, value) pairs of
\* the batch the frame was built from, each as often as the batch has it;
\* a frame built from an empty batch has no point.
C7_SeriesKeepsEveryPair ==
    state = "Idle" =>
        /\ view.kind = "live" => SamePairs(view.chart.AQI, rows, "aqi")
        /\ view.kind = "history" =>
               /\ SamePairs(view.chart.AQI, rows, "aqi")
               /\ SamePairs(view.chart.Temperature, rows, "temperature")
               /\ SamePairs(view.chart.Humidity, rows, "humidity")
        /\ view.kind \in {"info", "no data"} =>
               /\ rows = <<>>
               /\ view.chart = NoChart

C7_Witness ==
    /\ state = "Idle"
    /\ view.kind = "history"
    /\ Len(rows) = MaxRows
    /\ \E i, j \in 1..Len(rows) :
           /\ i < j
           /\ rows[i].created_at = rows[j].created_at
           /\ rows[i].aqi = rows[j].aqi
    /\ \E i, j \in 1..Len(rows) : rows[i].created_at # rows[j].created_at

\* C8: the frame the live view shows after a cycle is built from the rows
\* of that cycle's own fetch and from nothing else: its summary is their
\* first row, its chart has their points and no others.
C8_FrameFromOwnFetch ==
    LiveShown =>
        /\ rows = <<>> => view = Frame("info")
        /\ rows # <<>> => view.kind \in {"live", "live error"}
        /\ view.kind = "live" =>
               /\ view.aqi = Cell(rows[1], "aqi")
               /\ view.temp = Cell(rows[1], "temperature")
               /\ view.hum = Cell(rows[1], "humidity")
               /\ Len(view.chart.AQI) = Len(rows)
               /\ \A i \in 1..Len(rows) : \E j \in 1..Len(rows) :
                      view.chart.AQI[j] = <<tz_convert(rows[i].created_at), Cell(rows[i], "aqi")>>
               /\ view.chart.Temperature = <<>>
               /\ view.chart.Humidity = <<>>
               /\ view.log = <<>>

C8_Witness ==
    /\ LiveShown
    /\ view.kind = "live"
    /\ outcome = [result |-> "rendered", over |-> TRUE]
    /\ Len(rows) = 2
    /\ Cardinality(table) = 3

LiveKinds == {"live", "info", "live error"}

\* C9: while the selection is not the live view, no step starts a live
\* cycle and no step draws a live frame; a cycle that was in flight when
\* the user switched away ends discarded.
C9_NoCycleAfterDeactivation ==
    [][choice' # "Current Data" =>
          /\ state' = "Refreshing" => (state = "Refreshing" /\ rows' = rows /\ outcome' = outcome)
          /\ view'.kind \in LiveKinds => view' = view
          /\ (state = "Refreshing" /\ state' = "Idle") =>
                 (outcome'.result = "discarded" /\ ~timerOn')
          /\ state' = "Idle" => ~timerOn']_vars

C9_Witness ==
    /\ choice = "Stored Data"
    /\ state = "Idle"
    /\ ~timerOn
    /\ outcome.result = "discarded"
    /\ view.kind = "history"

\* a batch with a row that lacks a field or whose timestamp does not parse
SchemaMismatch(rs) ==
    \E i \in 1..Len(rs) : rs[i].absent # {} \/ Len(rs[i].created_at) # 2

\* C10: a cycle whose batch has a row with a missing field or an
\* unparseable timestamp ends Idle with the live view showing an empty or
\* error indicator, and the timer still armed.
C10_FailureDegradesView ==
    (LiveShown /\ SchemaMismatch(rows)) => view.kind \in {"info", "live error"}

=============================================================================
